---- MODULE Spec2Model ----
(***************************************************************************)
(* Model of the Sage compiler's lexical Analyzer                           *)
(* (Compiler/Source/Lexer/Analyzer.h, Analyzer.cpp).                       *)
(*                                                                         *)
(* Strings are TLA+ strings; std::string positions are kept 0-based as in  *)
(* the code, so character `position' of the code is element position + 1.  *)
(***************************************************************************)
EXTENDS Integers, Sequences, FiniteSets, TLC

(***************************************************************************)
(* Bounds of the model.                                                    *)
(***************************************************************************)
\* Number of stream objects an instance may allocate, i.e. the number of
\* Read/Write calls made on it before it is destroyed.
MaxCalls == 2

\* Longest generated word (source line over Alphabet).
MaxLineLen == 3

(***************************************************************************)
(* std::string                                                             *)
(***************************************************************************)
\* std::string::npos, the "not found" result of find.
npos == -1

\* s.find(t, pos): the first 0-based position >= pos where t occurs in s.
find(s, t, pos) ==
    LET hits == {p \in pos..(Len(s) - Len(t)) : SubSeq(s, p + 1, p + Len(t)) = t}
    IN  IF hits = {} THEN npos
        ELSE CHOOSE p \in hits : \A q \in hits : p <= q

\* s.replace(pos, n, t): the n characters from pos are replaced by t.
replace(s, pos, n, t) ==
    SubSeq(s, 1, pos) \o t \o SubSeq(s, pos + n + 1, Len(s))

\* Whether t occurs somewhere in s.
Contains(s, t) == find(s, t, 0) # npos

(***************************************************************************)
(* Analyzer::GenerateTokens                                                *)
(***************************************************************************)
\* The table with the less-than symbol spelled "@OPERATOR-LESS@": a symbol
\* that holds the pattern "-".
RuleTableHyphen ==
    << <<" ", "@WHITESPACE@">>, <<"\n", "@NEW_LINE@">>, <<"\t", "@TAB@">>,
       <<";", "@SEMICOLON@">>,
       <<"(", "@PARENTHESIS_BEGIN@">>, <<")", "@PARENTHESIS_END@">>,
       <<"{", "@BRACKET_BEGIN@">>, <<"}", "@BRACKET_END@">>,
       <<"<", "@OPERATOR-LESS@">>, <<">", "@OPERATOR_GREATER@">>,
       <<"=", "@OPERATOR_ASSIGN@">>, <<"->", "@OPERATOR_ARROW@">>,
       <<"::", "@OPERATOR_SCOPE@">>, <<"&&", "@OPERATOR_AND@">>,
       <<"||", "@OPERATOR_OR@">>, <<"<<", "@SHIFT_LEF@">>,
       <<">>", "@SHIFT_RIGHT@">>,
       <<"+", "@PLUS@">>, <<"-", "@MINUS@">>, <<"*", "@MULTIPLY@">>,
       <<"/", "@DIVIDE@">>,
       <<"class", "@CLASS@">>, <<"define", "@DEFINE@">>,
       <<"delete", "@DELETE@">>, <<"fn", "@FUNCTION@">>,
       <<"Main", "@ENTRY_POINT@">>, <<"new", "@NEW@">>,
       <<"return", "@RETURN@">>, <<"use", "@INCLUDE@">>,
       <<"f32", "@FLOAT_32@">>, <<"f64", "@FLOAT_64@">>,
       <<"i8", "@INTEGER_8@">>, <<"i16", "@INTEGER_16@">>,
       <<"i32", "@INTEGER_32@">>, <<"i64", "@INTEGER_64@">>,
       <<"u8", "@UNSIGNED_INTEGER_8@">>, <<"u16", "@UNSIGNED_INTEGER_16@">>,
       <<"u32", "@UNSIGNED_INTEGER_32@">>, <<"u64", "@UNSIGNED_INTEGER_64@">>,
       <<"str", "@STRING@">> >>

\* The initializer list assigned to tokens, in the order it is written:
\* <<pattern, symbol>> pairs (token.first, token.second).
RuleTable ==
    << <<" ", "@WHITESPACE@">>, <<"\n", "@NEW_LINE@">>, <<"\t", "@TAB@">>,
       <<";", "@SEMICOLON@">>,
       <<"(", "@PARENTHESIS_BEGIN@">>, <<")", "@PARENTHESIS_END@">>,
       <<"{", "@BRACKET_BEGIN@">>, <<"}", "@BRACKET_END@">>,
       <<"<", "@OPERATOR_LESS@">>, <<">", "@OPERATOR_GREATER@">>,
       <<"=", "@OPERATOR_ASSIGN@">>, <<"->", "@OPERATOR_ARROW@">>,
       <<"::", "@OPERATOR_SCOPE@">>, <<"&&", "@OPERATOR_AND@">>,
       <<"||", "@OPERATOR_OR@">>, <<"<<", "@SHIFT_LEF@">>,
       <<">>", "@SHIFT_RIGHT@">>,
       <<"+", "@PLUS@">>, <<"-", "@MINUS@">>, <<"*", "@MULTIPLY@">>,
       <<"/", "@DIVIDE@">>,
       <<"class", "@CLASS@">>, <<"define", "@DEFINE@">>,
       <<"delete", "@DELETE@">>, <<"fn", "@FUNCTION@">>,
       <<"Main", "@ENTRY_POINT@">>, <<"new", "@NEW@">>,
       <<"return", "@RETURN@">>, <<"use", "@INCLUDE@">>,
       <<"f32", "@FLOAT_32@">>, <<"f64", "@FLOAT_64@">>,
       <<"i8", "@INTEGER_8@">>, <<"i16", "@INTEGER_16@">>,
       <<"i32", "@INTEGER_32@">>, <<"i64", "@INTEGER_64@">>,
       <<"u8", "@UNSIGNED_INTEGER_8@">>, <<"u16", "@UNSIGNED_INTEGER_16@">>,
       <<"u32", "@UNSIGNED_INTEGER_32@">>, <<"u64", "@UNSIGNED_INTEGER_64@">>,
       <<"str", "@STRING@">> >>

\* Index in RuleTable of the rule whose pattern is p.
RuleIndex(p) == CHOOSE i \in 1..Len(RuleTable) : RuleTable[i][1] = p

\* The pairs of rules of which one pattern is a strict prefix of the other:
\* <<shorter, longer>>.
PrefixPairs ==
    { <<i, j>> \in (1..Len(RuleTable)) \X (1..Len(RuleTable)) :
        /\ Len(RuleTable[i][1]) < Len(RuleTable[j][1])
        /\ SubSeq(RuleTable[j][1], 1, Len(RuleTable[i][1])) = RuleTable[i][1] }

\* tokens is a std::unordered_map: the order in which the range-for of Read
\* visits its elements is unspecified.  An iteration order is a permutation
\* of 1..Len(RuleTable).  The orders explored are the written order with the
\* two rules of any subset of the prefix pairs exchanged.
Exchange(perm, pair) ==
    [k \in DOMAIN perm |->
        IF perm[k] = pair[1] THEN pair[2]
        ELSE IF perm[k] = pair[2] THEN pair[1] ELSE perm[k]]

RECURSIVE ExchangeAll(_, _)
ExchangeAll(perm, pairs) ==
    IF pairs = {} THEN perm
    ELSE LET pr == CHOOSE x \in pairs : TRUE
         IN  ExchangeAll(Exchange(perm, pr), pairs \ {pr})

WrittenOrder == [k \in 1..Len(RuleTable) |-> k]

IterationOrders ==
    {ExchangeAll(WrittenOrder, S) : S \in SUBSET PrefixPairs}

\* The content of tokens after GenerateTokens, as the sequence of pairs the
\* range-for visits under iteration order `order'.
GenerateTokens(order) == [k \in DOMAIN order |-> RuleTable[order[k]]]

(***************************************************************************)
(* The substitution loop of Analyzer::Read                                 *)
(***************************************************************************)
\* A line under substitution is [text, sym, hit]: text is m_Line; sym[k]
\* tells whether character k of text was written by a replace (it belongs
\* to an inserted symbol) or comes from the file; hit tells whether some
\* match found so far covered a character written by a replace.
SourceLine(str) ==
    [text |-> str, sym |-> [k \in 1..Len(str) |-> FALSE], hit |-> FALSE]

\* The while loop over one token: find from position, replace, advance the
\* position past the inserted symbol, until find returns npos.
RECURSIVE ReplaceAll(_, _, _)
ReplaceAll(line, token, position) ==
    LET found == find(line.text, token[1], position)
    IN  IF found = npos THEN line
        ELSE ReplaceAll(
               [text |-> replace(line.text, found, Len(token[1]), token[2]),
                sym  |-> SubSeq(line.sym, 1, found)
                           \o [k \in 1..Len(token[2]) |-> TRUE]
                           \o SubSeq(line.sym, found + Len(token[1]) + 1,
                                     Len(line.sym)),
                hit  |-> line.hit \/
                           \E k \in (found + 1)..(found + Len(token[1])) :
                               line.sym[k]],
               token, found + Len(token[2]))

\* The range-for over tokens, from the state [line, next] of the iteration
\* (the line so far, the index of the next token to visit): every token's
\* loop starts at position 0 on the line the previous tokens left.
RECURSIVE ForEachToken(_, _)
ForEachToken(it, toks) ==
    IF it.next > Len(toks) THEN it.line
    ELSE ForEachToken([line |-> ReplaceAll(it.line, toks[it.next], 0),
                       next |-> it.next + 1], toks)

\* The substitution of one line read from the file.
Substitute(str, toks) ==
    ForEachToken([line |-> SourceLine(str), next |-> 1], toks)

(***************************************************************************)
(* std::ifstream / std::ofstream                                           *)
(***************************************************************************)
\* A file of the file system: whether it exists, and its characters.
NoFile == [exists |-> FALSE, data |-> ""]

File(str) == [exists |-> TRUE, data |-> str]

\* new std::ifstream(path): open iff the file exists; reading starts at
\* offset 0 with eofbit and failbit clear (failbit set when not opened).
OpenIfstream(file) ==
    [open |-> file.exists, data |-> file.data, pos |-> 0,
     eof |-> FALSE, fail |-> ~file.exists]

\* std::getline(stream, str): [stream, str, ok].  When the stream is not
\* good, str is left alone and failbit is set.  Otherwise str is erased and
\* characters are extracted up to and without the next "\n"; reaching the
\* end of the data sets eofbit, and failbit too when nothing was extracted.
getline(stream, str) ==
    IF stream.eof \/ stream.fail
    THEN [stream |-> [stream EXCEPT !.fail = TRUE], str |-> str, ok |-> FALSE]
    ELSE LET nl == find(stream.data, "\n", stream.pos)
         IN  IF nl # npos
             THEN [stream |-> [stream EXCEPT !.pos = nl + 1],
                   str |-> SubSeq(stream.data, stream.pos + 1, nl),
                   ok |-> TRUE]
             ELSE LET rest == SubSeq(stream.data, stream.pos + 1,
                                     Len(stream.data))
                  IN  [stream |-> [stream EXCEPT !.pos = Len(stream.data),
                                                 !.eof = TRUE,
                                                 !.fail = (rest = "")],
                       str |-> rest,
                       ok |-> rest # ""]

\* A close that leaves the file open.
closeKeepsOpen(stream) == stream

\* stream->close().
close(stream) == [stream EXCEPT !.open = FALSE]

\* The stream object as it stays on the heap once the call has returned:
\* its kind, whether its file is open, how many times it was deleted.
HeapObject(kind, stream) ==
    [kind |-> kind, open |-> stream.open, deleted |-> 0]

(***************************************************************************)
(* The file system and the source files                                    *)
(***************************************************************************)
\* Main.sg is the source file, Main.sgc the path main derives from it for
\* the output (file + "c"); NoDir/Main.sgc lies in a directory that does not
\* exist: it can neither be opened for reading nor created.
Paths == {"Main.sg", "Main.sgc", "NoDir/Main.sgc"}

Creatable == {"Main.sg", "Main.sgc"}

\* The lines of a sequence, each followed by a newline.
RECURSIVE JoinLines(_)
JoinLines(lines) ==
    IF lines = <<>> THEN ""
    ELSE Head(lines) \o "\n" \o JoinLines(Tail(lines))

\* The characters the generated source lines are made of.
Alphabet == <<"<", ">", "-", "x">>

\* All words of exactly n characters of Alphabet, in lexicographic order.
RECURSIVE Words(_)
Words(n) ==
    IF n = 0 THEN <<"">>
    ELSE LET shorter == Words(n - 1)
         IN  [k \in 1..(Len(shorter) * Len(Alphabet)) |->
                 shorter[((k - 1) \div Len(Alphabet)) + 1]
                     \o Alphabet[((k - 1) % Len(Alphabet)) + 1]]

\* All words of 1..n characters.
RECURSIVE WordsUpTo(_)
WordsUpTo(n) == IF n = 0 THEN <<>> ELSE WordsUpTo(n - 1) \o Words(n)

\* The contents Main.sg may have when the Analyzer is constructed.
SourceFiles ==
    { "",                                         \* an empty file
      "\n\n",                                     \* only empty lines
      "fn x\n\n",                                 \* a line, an empty line
      "a<<b\n\nc->>d",                            \* no newline at the end
      "<<\n->\nstr\n" }                           \* patterns alone on a line

\* The single lines the substitution is explored on: every pattern of the
\* table (the newline pattern gives an empty line), then every word.
LinePool ==
    {RuleTable[k][1] : k \in 1..Len(RuleTable)}
        \cup {WordsUpTo(MaxLineLen)[k] : k \in 1..Len(WordsUpTo(MaxLineLen))}
        \cup {"fn Main() { return 0; }", "i32 a = b << 2;", "c->d >> 1"}

(***************************************************************************)
(* The Analyzer instance                                                   *)
(***************************************************************************)
VARIABLES
    fileName,          \* std::string fileName
    tokens,            \* the rule table, in the order the range-for visits it
    m_Reader,          \* std::ifstream*: index into heap, or nullptr
    m_Writer,          \* std::ofstream*: index into heap, or nullptr
    m_Line,            \* std::string m_Line
    m_CommandBuffer,   \* std::vector<std::string> m_CommandBuffer
    heap,              \* the stream objects allocated with new, in order
    fs,                \* the file system: path -> file
    returned,          \* the last call and the value it returned
    destroyed          \* whether ~Analyzer has run

vars == <<fileName, tokens, m_Reader, m_Writer, m_Line, m_CommandBuffer,
          heap, fs, returned, destroyed>>

nullptr == 0

\* Analyzer::Analyzer(): both pointers null, the containers empty.
Init ==
    /\ fileName = ""
    /\ tokens = <<>>
    /\ m_Reader = nullptr
    /\ m_Writer = nullptr
    /\ m_Line = ""
    /\ m_CommandBuffer = <<>>
    /\ heap = <<>>
    /\ fs \in {[p \in Paths |-> IF p = "Main.sg" THEN File(src) ELSE NoFile] :
                  src \in SourceFiles}
    /\ returned = [op |-> "Analyzer", path |-> "", ret |-> TRUE]
    /\ destroyed = FALSE

\* A push_back without the size test.
PushAnyLine(buffer, line) == Append(buffer, line)

\* if (m_Line.size() > 0) m_CommandBuffer.push_back(m_Line);
PushLine(buffer, line) ==
    IF Len(line) > 0 THEN Append(buffer, line) ELSE buffer

\* while (std::getline(*m_Reader, m_Line)) { substitute; push }, from the
\* state [stream, line, buffer] (*m_Reader, m_Line, m_CommandBuffer).
\* Yields the state the loop leaves.
RECURSIVE ReadLoop(_, _)
ReadLoop(rd, toks) ==
    LET got == getline(rd.stream, rd.line)
    IN  IF ~got.ok
        THEN [stream |-> got.stream, line |-> got.str, buffer |-> rd.buffer]
        ELSE LET done == Substitute(got.str, toks).text
             IN  ReadLoop([stream |-> got.stream, line |-> done,
                           buffer |-> PushLine(rd.buffer, done)], toks)

\* A Read that calls GenerateTokens before it tests is_open.
ReadOutcomeEager(filePath, order) ==
    LET stream == OpenIfstream(fs[filePath])
        toks   == GenerateTokens(order)
    IN  IF ~stream.open
        THEN [ret |-> FALSE, stream |-> stream, tokens |-> toks,
              line |-> m_Line, buffer |-> m_CommandBuffer]
        ELSE LET loop == ReadLoop([stream |-> stream, line |-> m_Line,
                                   buffer |-> m_CommandBuffer], toks)
             IN  [ret |-> TRUE, stream |-> close(loop.stream), tokens |-> toks,
                  line |-> loop.line, buffer |-> loop.buffer]

\* The body of Read after fileName = filePath, when GenerateTokens yields
\* iteration order `order': the return value, the stream object left behind
\* and the new values of tokens, m_Line and m_CommandBuffer.
ReadOutcome(filePath, order) ==
    LET stream == OpenIfstream(fs[filePath])
    IN  IF ~stream.open
        THEN [ret |-> FALSE, stream |-> stream, tokens |-> tokens,
              line |-> m_Line, buffer |-> m_CommandBuffer]
        ELSE LET toks == GenerateTokens(order)
                 loop == ReadLoop([stream |-> stream, line |-> m_Line,
                                   buffer |-> m_CommandBuffer], toks)
             IN  [ret |-> TRUE, stream |-> close(loop.stream), tokens |-> toks,
                  line |-> loop.line, buffer |-> loop.buffer]

\* bool Analyzer::Read(const std::string& filePath)
Read(filePath) ==
    /\ ~destroyed
    /\ Len(heap) < MaxCalls
    /\ \E order \in IterationOrders :
         LET out == ReadOutcome(filePath, order)
         IN  /\ fileName' = filePath
             /\ heap' = Append(heap, HeapObject("ifstream", out.stream))
             /\ m_Reader' = Len(heap) + 1
             /\ tokens' = out.tokens
             /\ m_Line' = out.line
             /\ m_CommandBuffer' = out.buffer
             /\ returned' = [op |-> "Read", path |-> filePath, ret |-> out.ret]
    /\ UNCHANGED <<m_Writer, fs, destroyed>>

\* new std::ofstream(path): open iff the file can be created; an opened
\* file is created or truncated.
OpenOfstream(filePath) ==
    [open |-> filePath \in Creatable, data |-> ""]

\* An output of the command without std::endl.
putBare(stream, command) ==
    [stream EXCEPT !.data = @ \o command]

\* *m_Writer << command << std::endl;
put(stream, command) ==
    [stream EXCEPT !.data = @ \o command \o "\n"]

\* for (const auto& command : m_CommandBuffer) put, from the state
\* [stream, next] of the iteration (*m_Writer, the index of the next command).
RECURSIVE WriteLoop(_, _)
WriteLoop(it, buffer) ==
    IF it.next > Len(buffer) THEN it.stream
    ELSE WriteLoop([stream |-> put(it.stream, buffer[it.next]),
                    next |-> it.next + 1], buffer)

\* bool Analyzer::Write(const std::string& filePath)
Write(filePath) ==
    /\ ~destroyed
    /\ Len(heap) < MaxCalls
    /\ LET stream == OpenOfstream(filePath)
       IN  IF ~stream.open
           THEN /\ heap' = Append(heap, HeapObject("ofstream", stream))
                /\ returned' = [op |-> "Write", path |-> filePath, ret |-> FALSE]
                /\ fs' = fs
           ELSE LET written == WriteLoop([stream |-> stream, next |-> 1],
                                         m_CommandBuffer)
                IN  /\ heap' = Append(heap, HeapObject("ofstream", close(written)))
                    /\ returned' = [op |-> "Write", path |-> filePath, ret |-> TRUE]
                    /\ fs' = [fs EXCEPT ![filePath] = File(written.data)]
    /\ m_Writer' = Len(heap) + 1
    /\ UNCHANGED <<fileName, tokens, m_Reader, m_Line, m_CommandBuffer, destroyed>>

\* delete ptr: the object's destructor closes its file.
delete(objects, ptr) ==
    [objects EXCEPT ![ptr] = [@ EXCEPT !.open = FALSE, !.deleted = @ + 1]]

\* Analyzer::~Analyzer()
Destructor ==
    /\ ~destroyed
    /\ LET afterReader == IF m_Reader # nullptr THEN delete(heap, m_Reader)
                                               ELSE heap
       IN  heap' = IF m_Writer # nullptr THEN delete(afterReader, m_Writer)
                                         ELSE afterReader
    /\ destroyed' = TRUE
    /\ returned' = [op |-> "~Analyzer", path |-> "", ret |-> TRUE]
    /\ UNCHANGED <<fileName, tokens, m_Reader, m_Writer, m_Line,
                   m_CommandBuffer, fs>>

Next ==
    \/ \E filePath \in Paths : Read(filePath)
    \/ \E filePath \in Paths : Write(filePath)
    \/ Destructor

Spec == Init /\ [][Next]_vars

(***************************************************************************)
(* The substitution of single lines: an Analyzer constructed next to a     *)
(* Main.sg of one line of LinePool reads it once.                          *)
(***************************************************************************)
InitLine ==
    /\ fileName = ""
    /\ tokens = <<>>
    /\ m_Reader = nullptr
    /\ m_Writer = nullptr
    /\ m_Line = ""
    /\ m_CommandBuffer = <<>>
    /\ heap = <<>>
    /\ fs \in {[p \in Paths |-> IF p = "Main.sg" THEN File(JoinLines(<<line>>))
                                ELSE NoFile] : line \in LinePool}
    /\ returned = [op |-> "Analyzer", path |-> "", ret |-> TRUE]
    /\ destroyed = FALSE

ReadLine == heap = <<>> /\ Read("Main.sg")

NextLine == ReadLine

LineSpec == InitLine /\ [][NextLine]_vars

(***************************************************************************)
(* Properties                                                              *)
(***************************************************************************)
\* The lines std::getline yields from a file, in order.
RECURSIVE LinesFrom(_)
LinesFrom(it) ==
    LET got == getline(it.stream, "")
    IN  IF ~got.ok THEN it.lines
        ELSE LinesFrom([stream |-> got.stream,
                        lines |-> Append(it.lines, got.str)])

FileLines(file) == LinesFrom([stream |-> OpenIfstream(file), lines |-> <<>>])

NonEmpty(str) == str # ""

\* The symbol the table gives for pattern p.
Symbol(p) == RuleTable[RuleIndex(p)][2]

\* The last call was a Read that returned true.
ReadSucceeded == returned.op = "Read" /\ returned.ret

\* The last call was a Write that returned true.
WriteSucceeded == returned.op = "Write" /\ returned.ret

\* The non-empty lines of the file the last Read read.
ReadLines == SelectSeq(FileLines(fs[fileName]), NonEmpty)

\* After a successful Read, the entry of m_CommandBuffer that the i-th
\* non-empty line of the file produced: the loop appended one entry per
\* such line, so they are the last Len(ReadLines) entries.
EntryOf(i) == m_CommandBuffer[Len(m_CommandBuffer) - Len(ReadLines) + i]

\* C1: after a successful Read, every line of the file that contains "<<"
\* produced an entry that contains the shift-left symbol and does not
\* contain two consecutive less-than symbols.
OverlapCorrectness ==
    ReadSucceeded =>
        \A i \in 1..Len(ReadLines) :
            Contains(ReadLines[i], "<<") =>
                /\ Contains(EntryOf(i), Symbol("<<"))
                /\ ~Contains(EntryOf(i), Symbol("<") \o Symbol("<"))

\* C2: after a successful Read, every line of the file that is exactly the
\* pattern of a rule produced an entry that is exactly the rule's symbol.
PatternYieldsSymbol ==
    ReadSucceeded =>
        \A i \in 1..Len(ReadLines) :
            \A k \in 1..Len(RuleTable) :
                ReadLines[i] = RuleTable[k][1] => EntryOf(i) = RuleTable[k][2]

\* C3: after every successful Read, m_CommandBuffer holds exactly the
\* substituted non-empty lines of the file just read, in file order, and
\* nothing else.
BufferHoldsLastReadOnly ==
    ReadSucceeded =>
        /\ Len(m_CommandBuffer) = Len(ReadLines)
        /\ \A i \in 1..Len(m_CommandBuffer) :
               m_CommandBuffer[i] = Substitute(ReadLines[i], tokens).text

\* A step is a Read that returned false.
ReadFailedStep ==
    /\ Len(heap') = Len(heap) + 1
    /\ returned'.op = "Read"
    /\ ~returned'.ret

RECURSIVE WrittenSize(_)
WrittenSize(buffer) ==
    IF buffer = <<>> THEN 0
    ELSE Len(Head(buffer)) + 1 + WrittenSize(Tail(buffer))

\* C5: after a successful Write, the file written has as many lines as
\* m_CommandBuffer has entries, its i-th line is the i-th entry verbatim, and
\* it holds nothing but the entries and one line terminator after each.
RoundTripShape ==
    WriteSucceeded =>
        /\ fs[returned.path].exists
        /\ FileLines(fs[returned.path]) = m_CommandBuffer
        /\ Len(fs[returned.path].data) = WrittenSize(m_CommandBuffer)

\* A Write succeeded after a Read that had put several entries in the buffer.
WroteSeveralLines ==
    /\ WriteSucceeded
    /\ tokens # <<>>
    /\ Len(m_CommandBuffer) >= 2

\* C6: once a Read or Write call has returned, no stream object of the
\* instance has its file open.
HandlesReleased ==
    \A i \in 1..Len(heap) : ~heap[i].open

\* A Read and then a Write have both returned true.
ReadAndWriteSucceeded ==
    /\ WriteSucceeded
    /\ tokens # <<>>
    /\ m_Reader # nullptr

\* A step is a Read that returned true.
ReadSucceededStep ==
    /\ Len(heap') = Len(heap) + 1
    /\ returned'.op = "Read"
    /\ returned'.ret

\* C7: no entry of m_CommandBuffer is ever the empty string, and a
\* successful Read appends exactly one entry per non-empty line of the file
\* (an empty line is dropped, every other line is appended).
NoEmptyEntry ==
    [][/\ \A i \in 1..Len(m_CommandBuffer') : m_CommandBuffer'[i] # ""
       /\ ReadSucceededStep =>
            Len(m_CommandBuffer') =
                Len(m_CommandBuffer)
                    + Len(SelectSeq(FileLines(fs[returned'.path]), NonEmpty))]_vars

\* A successful Read of a file with an empty line and a non-empty line.
ReadDroppedEmptyLine ==
    /\ ReadSucceeded
    /\ \E i \in 1..Len(FileLines(fs[fileName])) : FileLines(fs[fileName])[i] = ""
    /\ m_CommandBuffer # <<>>

\* Pattern a is a strict prefix of pattern b.
StrictPrefix(a, b) == Len(a) < Len(b) /\ SubSeq(b, 1, Len(a)) = a

\* C8: in the sequence of rules GenerateTokens builds, a pattern that has
\* another pattern as a strict prefix comes before that prefix.
LongerPatternFirst ==
    \A i \in 1..Len(tokens) :
        \A j \in 1..Len(tokens) :
            StrictPrefix(tokens[i][1], tokens[j][1]) => j < i

\* C9: patterns and symbols are not empty, no symbol of the table contains a
\* pattern of the table, and in the substitution of every line of a file
\* read, no match of a rule covers a character of an inserted symbol.
NoRematch ==
    /\ \A i \in 1..Len(tokens) :
           /\ tokens[i][1] # ""
           /\ tokens[i][2] # ""
           /\ \A j \in 1..Len(tokens) : ~Contains(tokens[i][2], tokens[j][1])
    /\ ReadSucceeded =>
           \A i \in 1..Len(ReadLines) :
               /\ ~Substitute(ReadLines[i], tokens).hit
               /\ Substitute(ReadLines[i], tokens).text = EntryOf(i)

\* A Read whose line took a replacement of "-" and right after it one of ">".
AdjacentSymbols ==
    /\ ReadSucceeded
    /\ m_CommandBuffer # <<>>
    /\ Contains(m_CommandBuffer[1], Symbol("-") \o Symbol(">"))

\* C10: an instance never has more than one reader and one writer stream
\* object that is not deleted, and once the destructor has run every stream
\* object allocated has been deleted exactly once.
StreamsDeletedOnce ==
    /\ \A kind \in {"ifstream", "ofstream"} :
           Cardinality({i \in 1..Len(heap) :
                           heap[i].kind = kind /\ heap[i].deleted = 0}) <= 1
    /\ destroyed => \A i \in 1..Len(heap) : heap[i].deleted = 1

====
